---- MODULE Spec2Model ----
(***************************************************************************)
(* Cropter: the operator-side mission control page (MissionControl.tsx).   *)
(*                                                                         *)
(* The page is a React component.  Its state is the useState cells and     *)
(* useRef cells of the component; its operations are the WebSocket         *)
(* callbacks, the keyboard listeners, the sampling interval, the connect   *)
(* timeout, the fetch continuation and the button handlers.  A handler,    *)
(* the re-render it causes and the effects of that render are one step.    *)
(***************************************************************************)
EXTENDS Integers, Sequences, FiniteSets, TLC

(***************************************************************************)
(* Bounds of the model.                                                    *)
(***************************************************************************)
\* keys that may be physically held down at the same time
MaxHeld == 2
\* connect timeouts (setTimeout of connectDrone) pending at the same time
MaxTimers == 1
\* generate-flight-path requests in flight at the same time
MaxFetches == 1

(***************************************************************************)
(* Values.                                                                 *)
(***************************************************************************)
\* null / undefined of a state cell that otherwise holds an object
Null == [kind |-> "null"]

\* e.key values of the key events the model feeds in
KeyEvents == {"w", "S", " "}

\* String.prototype.toLowerCase on the e.key values above and on the names
\* sendManualCommands looks up
ToLowerCase(k) ==
  CASE k = "W" -> "w"
    [] k = "S" -> "s"
    [] k = "A" -> "a"
    [] k = "D" -> "d"
    [] k = "ArrowUp" -> "arrowup"
    [] k = "ArrowDown" -> "arrowdown"
    [] k = "ArrowLeft" -> "arrowleft"
    [] k = "ArrowRight" -> "arrowright"
    [] OTHER -> k

\* the key table with the counter-clockwise turn written as a negative angle
ManualKeyTableSigned ==
  << [key |-> "w",          msg |-> [action |-> "move_forward", distance |-> 20]],
     [key |-> "s",          msg |-> [action |-> "move_back",    distance |-> 20]],
     [key |-> "a",          msg |-> [action |-> "move_left",    distance |-> 20]],
     [key |-> "d",          msg |-> [action |-> "move_right",   distance |-> 20]],
     [key |-> "arrowup",    msg |-> [action |-> "move_up",      distance |-> 20]],
     [key |-> "arrowdown",  msg |-> [action |-> "move_down",    distance |-> 20]],
     [key |-> "arrowleft",  msg |-> [action |-> "rotate_ccw",   degrees |-> -15]],
     [key |-> "arrowright", msg |-> [action |-> "rotate_cw",    degrees |-> 15]] >>

\* the key tests of sendManualCommands in source order, land (space) apart
ManualKeyTable ==
  << [key |-> "w",          msg |-> [action |-> "move_forward", distance |-> 20]],
     [key |-> "s",          msg |-> [action |-> "move_back",    distance |-> 20]],
     [key |-> "a",          msg |-> [action |-> "move_left",    distance |-> 20]],
     [key |-> "d",          msg |-> [action |-> "move_right",   distance |-> 20]],
     [key |-> "arrowup",    msg |-> [action |-> "move_up",      distance |-> 20]],
     [key |-> "arrowdown",  msg |-> [action |-> "move_down",    distance |-> 20]],
     [key |-> "arrowleft",  msg |-> [action |-> "rotate_ccw",   degrees |-> 15]],
     [key |-> "arrowright", msg |-> [action |-> "rotate_cw",    degrees |-> 15]] >>

RECURSIVE MoveCommands(_, _)
\* the sendCommand calls of lines 149-160 for the key set keys, from entry i on
MoveCommands(keys, i) ==
  IF i > Len(ManualKeyTable) THEN << >>
  ELSE (IF ManualKeyTable[i].key \in keys THEN << ManualKeyTable[i].msg >> ELSE << >>)
       \o MoveCommands(keys, i + 1)

\* every key name sendManualCommands tests
ManualKeys == {ManualKeyTable[i].key : i \in 1..Len(ManualKeyTable)} \cup {" "}

\* whether the land branch of sendManualCommands is taken
LandKeyHeld(keys) == " " \in keys

\* sendManualCommands with the land branch sending another action name
ManualCommandsOtherLand(keys) ==
  MoveCommands(keys, 1)
    \o (IF LandKeyHeld(keys) THEN << [action |-> "land_now"] >> ELSE << >>)

\* every sendCommand call one run of sendManualCommands makes, in order
ManualCommands(keys) ==
  MoveCommands(keys, 1)
    \o (IF LandKeyHeld(keys) THEN << [action |-> "land"] >> ELSE << >>)

ManualActions ==
  {"move_forward", "move_back", "move_left", "move_right", "move_up", "move_down",
   "rotate_ccw", "rotate_cw", "land"}

\* the actions named in a sequence of messages
ActionsOf(msgs) == {msgs[i].action : i \in 1..Len(msgs)}

(***************************************************************************)
(* State.                                                                  *)
(***************************************************************************)
VARIABLES
  socket,          \* readyState of the WebSocket made by the mount effect
  ws,              \* useState ws: "null" or "sock"
  connected,       \* useState connected
  droneConnected,  \* useState droneConnected
  streaming,       \* useState streaming
  manualMode,      \* useState manualMode
  connectTimers,   \* setTimeout callbacks of connectDrone not yet run
  held,            \* keys physically down (lower-cased names)
  keysPressed,     \* useRef keysPressed
  controlInterval, \* useRef controlInterval: "null" or "id"
  timerActive,     \* the interval behind controlInterval is still scheduled
  effWs,           \* ws as captured by the closures of the keyboard effect
  fieldMap,        \* useState fieldMap
  flightPlan,      \* useState flightPlan
  altitude,        \* useState altitude[0], cm
  overlap,         \* useState overlap[0], percent
  fetches,         \* generate-flight-path requests in flight, oldest first
  lastRequest,     \* the body of the request generateFlightPath posted last
  videoFrame,      \* useState videoFrame
  telemetry,       \* useState telemetry
  missionStatus,   \* useState missionStatus
  lastEvent,       \* the callback that ran last
  lastSent,        \* the messages that callback put on the open link, in order
  sendOnClosed,    \* that callback called send on a socket that is not open
  cleared,         \* that callback cancelled a scheduled interval
  started,         \* that callback called setInterval
  lastInput,       \* the parsed message that callback was given (onmessage)
  issued,          \* the tracked actions put on the link so far
  pinA,            \* FarmMapping useState pinA
  pinB,            \* FarmMapping useState pinB
  mode,            \* FarmMapping useState mode
  nextPin,         \* FarmMapping useState nextPin
  obstacles,       \* FarmMapping useState obstacles
  noFlyZones,      \* FarmMapping useState noFlyZones
  obstacleStart,   \* FarmMapping useState obstacleStart
  noFlyStart,      \* FarmMapping useState noFlyStart
  exported,        \* the field map the last FarmMapping callback downloaded
  uploadName,      \* MyFarm useState uploadName
  isUploading,     \* MyFarm useState isUploading
  isAnalyzing,     \* MyFarm useState isAnalyzing
  uploadProgress,  \* MyFarm useState uploadProgress
  analysisResults, \* MyFarm useState analysisResults
  xhr              \* the XMLHttpRequest of the analyzeVideo call not yet settled

linkVars == << socket, ws, connected >>
sessVars == << droneConnected, streaming, manualMode, connectTimers >>
keyVars  == << held, keysPressed, controlInterval, timerActive, effWs >>
planVars == << fieldMap, flightPlan, altitude, overlap, fetches, lastRequest >>
rxVars   == << videoFrame, telemetry, missionStatus >>
outVars  == << lastEvent, lastSent, sendOnClosed, cleared, started, lastInput, issued >>
farmVars ==
  << pinA, pinB, mode, nextPin, obstacles, noFlyZones, obstacleStart, noFlyStart,
     exported >>
uploadVars ==
  << uploadName, isUploading, isAnalyzing, uploadProgress, analysisResults, xhr >>
vars ==
  << linkVars, sessVars, keyVars, planVars, rxVars, outVars, farmVars,
     uploadVars >>

\* a map position on the grid of the model, in units of 0.0001 degree
LatLng(lat, lng) == [lat |-> lat, lng |-> lng]

\* the pins FarmMapping starts with: (36.7367, -119.7851), (36.7386, -119.7823)
DefaultPinA == LatLng(367367, -1197851)
DefaultPinB == LatLng(367386, -1197823)

\* the FarmMapping page as mounted
FarmIdle ==
  /\ pinA = DefaultPinA
  /\ pinB = DefaultPinB
  /\ mode = "base"
  /\ nextPin = "a"
  /\ obstacles = << >>
  /\ noFlyZones = << >>
  /\ obstacleStart = Null
  /\ noFlyStart = Null
  /\ exported = Null

\* the MyFarm page as mounted
UploadIdle ==
  /\ uploadName = Null
  /\ isUploading = FALSE
  /\ isAnalyzing = FALSE
  /\ uploadProgress = Null
  /\ analysisResults = Null
  /\ xhr = Null

\* the actions whose first sending is remembered in issued
Tracked == {"takeoff", "emergency_stop"}

Init ==
  /\ socket = "CONNECTING"
  /\ ws = "null"
  /\ connected = FALSE
  /\ droneConnected = FALSE
  /\ streaming = FALSE
  /\ manualMode = FALSE
  /\ connectTimers = 0
  /\ held = {}
  /\ keysPressed = {}
  /\ controlInterval = "null"
  /\ timerActive = FALSE
  /\ effWs = "null"
  /\ fieldMap = Null
  /\ flightPlan = Null
  /\ altitude = 200
  /\ overlap = 30
  /\ fetches = << >>
  /\ lastRequest = Null
  /\ videoFrame = ""
  /\ telemetry = Null
  /\ missionStatus = Null
  /\ lastEvent = "mount"
  /\ lastSent = << >>
  /\ sendOnClosed = FALSE
  /\ cleared = FALSE
  /\ started = FALSE
  /\ lastInput = Null
  /\ issued = {}
  /\ FarmIdle
  /\ UploadIdle

\* the plan panel as mounted
PlanIdle ==
  /\ fieldMap = Null
  /\ flightPlan = Null
  /\ altitude = 200
  /\ overlap = 30
  /\ fetches = << >>
  /\ lastRequest = Null

\* nothing received yet
RxIdle ==
  /\ videoFrame = ""
  /\ telemetry = Null
  /\ missionStatus = Null

\* the record of a callback ev that sent nothing
OutIdle(ev) ==
  /\ lastEvent = ev
  /\ lastSent = << >>
  /\ sendOnClosed = FALSE
  /\ cleared = FALSE
  /\ started = FALSE
  /\ lastInput = Null
  /\ issued = {}

\* the link is open and the connect timeout has run
LinkedSession ==
  /\ socket = "OPEN"
  /\ ws = "sock"
  /\ connected = TRUE
  /\ droneConnected = TRUE
  /\ streaming = FALSE
  /\ connectTimers = 0

(***************************************************************************)
(* The listeners of the keyboard effect.                                   *)
(***************************************************************************)
\* line 114: the effect installs its listeners only in this case
EffectActive(mm, dc) == mm /\ dc

\* handleKeyDown calling setInterval on every keydown
StartsIntervalAlways == TRUE

\* line 118: handleKeyDown calls setInterval only in this case
StartsInterval == controlInterval = "null"

\* the listeners of the committed render are installed
Listening == EffectActive(manualMode, droneConnected)

(***************************************************************************)
(* The link: what a callback's ws.send calls put on it.                    *)
(***************************************************************************)
\* WebSocket.send: data is transmitted on an OPEN socket and discarded on a
\* CLOSING or CLOSED one
Delivered(msgs) == IF socket = "OPEN" THEN msgs ELSE << >>

\* the record of a MissionControl callback named ev that was given input and
\* called send for each of msgs (stated last in an action: it reads
\* timerActive'); the callback has no access to the state of FarmMapping
EmitOf(ev, msgs, input) ==
  /\ lastEvent' = ev
  /\ lastSent' = Delivered(msgs)
  /\ sendOnClosed' = (msgs # << >> /\ socket # "OPEN")
  /\ cleared' = (timerActive /\ ~timerActive')
  /\ started' = (ev = "keydown" /\ Listening /\ StartsInterval)
  /\ lastInput' = input
  /\ issued' = issued \cup (ActionsOf(Delivered(msgs)) \cap Tracked)
  /\ UNCHANGED << farmVars, uploadVars >>

\* the record of a callback named ev that called send for each of msgs
Emit(ev, msgs) == EmitOf(ev, msgs, Null)

(***************************************************************************)
(* The keyboard effect, deps [manualMode, droneConnected].                 *)
(***************************************************************************)
\* Commit of a render with manualMode mm, droneConnected dc and ws w, after a
\* callback that left the interval scheduled iff timer: when a dep changed,
\* the old effect's cleanup clears the interval (controlInterval.current is
\* left as it is) and the effect runs again, its closures capturing w.
KeyboardEffect(mm, dc, w, timer) ==
  IF mm = manualMode /\ dc = droneConnected
  THEN /\ timerActive' = timer
       /\ effWs' = effWs
  ELSE /\ timerActive' = (IF Listening THEN FALSE ELSE timer)
       /\ effWs' = (IF EffectActive(mm, dc) THEN w ELSE "null")

(***************************************************************************)
(* WebSocket callbacks.                                                    *)
(***************************************************************************)
\* a callback that sends nothing
Quiet(ev) == Emit(ev, << >>)

\* websocket.onopen
OnOpen ==
  /\ socket = "CONNECTING"
  /\ socket' = "OPEN"
  /\ connected' = TRUE
  /\ ws' = "sock"
  /\ UNCHANGED << sessVars, keyVars, planVars, rxVars >>
  /\ Quiet("open")

\* The connection fails or is shut down: readyState leaves CONNECTING / OPEN
\* and the close event is queued; until it is dispatched the component still
\* holds the socket in ws.
ConnectionLost ==
  /\ socket \in {"CONNECTING", "OPEN"}
  /\ socket' = "CLOSING"
  /\ UNCHANGED << ws, connected, sessVars, keyVars, planVars, rxVars >>
  /\ Quiet("lost")

\* websocket.onclose
OnClose ==
  /\ socket = "CLOSING"
  /\ socket' = "CLOSED"
  /\ connected' = FALSE
  /\ ws' = "null"
  /\ UNCHANGED << sessVars, keyVars, planVars, rxVars >>
  /\ Quiet("close")

\* inbound frames the control model feeds in: event.data after JSON.parse, or
\* Invalid when JSON.parse throws
Invalid == [kind |-> "invalid"]
StatusDone ==
  [kind |-> "json", type |-> "mission_status", status |-> "completed",
   message |-> "Mission complete"]
InboundCtl == {Invalid, StatusDone}

\* JSON.parse gives null: reading data.type throws a TypeError
JsonNull == [kind |-> "jsonnull"]

\* JSON.parse gives a number (or a string, a boolean): data.type is undefined
JsonNumber == [kind |-> "number"]

\* the message makes the try block throw into its catch
Throws(raw) == raw \in {Invalid, JsonNull}

\* data.type
TypeOf(data) ==
  IF data.kind = "json" /\ "type" \in DOMAIN data THEN data.type ELSE "undefined"

\* the try block with its else branch taken for every other message
HandleMessageNoTypeTest(data) ==
  IF TypeOf(data) = "video_frame"
  THEN /\ videoFrame' = data.data
       /\ telemetry' = (IF data.telemetry # Null THEN data.telemetry ELSE telemetry)
       /\ missionStatus' =
            (IF data.mission_active
             THEN [kind |-> "json", status |-> "executing",
                   waypoint |-> data.waypoint, total_waypoints |-> data.total_waypoints]
             ELSE missionStatus)
  ELSE /\ missionStatus' = data
       /\ UNCHANGED << videoFrame, telemetry >>

\* the try block of websocket.onmessage on the parsed value data
HandleMessage(data) ==
  IF TypeOf(data) = "video_frame"
  THEN /\ videoFrame' = data.data
       /\ telemetry' = (IF data.telemetry # Null THEN data.telemetry ELSE telemetry)
       /\ missionStatus' =
            (IF data.mission_active
             THEN [kind |-> "json", status |-> "executing",
                   waypoint |-> data.waypoint, total_waypoints |-> data.total_waypoints]
             ELSE missionStatus)
  ELSE IF TypeOf(data) = "mission_status"
  THEN /\ missionStatus' = data
       /\ UNCHANGED << videoFrame, telemetry >>
  ELSE UNCHANGED rxVars

\* websocket.onmessage
OnMessage(raw) ==
  /\ socket = "OPEN"
  /\ IF Throws(raw) THEN UNCHANGED rxVars ELSE HandleMessage(raw)
  /\ UNCHANGED << linkVars, sessVars, keyVars, planVars >>
  /\ EmitOf("message", << >>, raw)

(***************************************************************************)
(* Keyboard listeners and the sampling interval.                           *)
(***************************************************************************)
\* a keydown event with e.key = key (a first press or an auto-repeat)
KeyDown(key) ==
  LET k == ToLowerCase(key) IN
  /\ Cardinality(held \cup {k}) <= MaxHeld
  /\ held' = held \cup {k}
  /\ IF Listening
     THEN \* handleKeyDown
          /\ keysPressed' = keysPressed \cup {k}
          /\ controlInterval' = "id"
          /\ timerActive' = (IF StartsInterval THEN TRUE ELSE timerActive)
     ELSE UNCHANGED << keysPressed, controlInterval, timerActive >>
  /\ UNCHANGED << effWs, linkVars, sessVars, planVars, rxVars >>
  /\ Quiet("keydown")

\* a keyup event whose handler only deletes the key
KeyUpNoCancel(key) ==
  LET k == ToLowerCase(key) IN
  /\ k \in held
  /\ held' = held \ {k}
  /\ IF Listening
     THEN /\ keysPressed' = keysPressed \ {k}
          /\ UNCHANGED << controlInterval, timerActive >>
     ELSE UNCHANGED << keysPressed, controlInterval, timerActive >>
  /\ UNCHANGED << effWs, linkVars, sessVars, planVars, rxVars >>
  /\ Quiet("keyup")

\* a keyup event with e.key = key
KeyUp(key) ==
  LET k == ToLowerCase(key) IN
  /\ k \in held
  /\ held' = held \ {k}
  /\ IF Listening
     THEN \* handleKeyUp
          /\ keysPressed' = keysPressed \ {k}
          /\ IF keysPressed' = {} /\ controlInterval # "null"
             THEN /\ controlInterval' = "null"
                  /\ timerActive' = FALSE
             ELSE UNCHANGED << controlInterval, timerActive >>
     ELSE UNCHANGED << keysPressed, controlInterval, timerActive >>
  /\ UNCHANGED << effWs, linkVars, sessVars, planVars, rxVars >>
  /\ Quiet("keyup")

\* sendManualCommands without the setManualMode(false) of its land branch
ManualModeAfterTickKept(keys) == manualMode

\* manualMode after a run of sendManualCommands that reached its key tests
ManualModeAfterTick(keys) == IF LandKeyHeld(keys) THEN FALSE ELSE manualMode

\* One run of sendManualCommands from the interval.  It is the closure of the
\* render whose effect installed the listeners: its ws is effWs and its
\* droneConnected is that render's, TRUE (EffectActive).
Tick ==
  /\ timerActive
  /\ IF effWs = "null"
     THEN /\ UNCHANGED << manualMode, timerActive, effWs >>
          /\ Quiet("tick")
     ELSE /\ manualMode' = ManualModeAfterTick(keysPressed)
          /\ KeyboardEffect(manualMode', droneConnected, ws, timerActive)
          /\ Emit("tick", ManualCommands(keysPressed))
  /\ UNCHANGED << held, keysPressed, controlInterval >>
  /\ UNCHANGED << droneConnected, streaming, connectTimers >>
  /\ UNCHANGED << linkVars, planVars, rxVars >>

(***************************************************************************)
(* Buttons.  A click on a disabled button runs no handler.                 *)
(***************************************************************************)
\* a click on a disabled button
Ignored(ev) ==
  /\ UNCHANGED << linkVars, sessVars, keyVars, planVars, rxVars >>
  /\ Quiet(ev)

\* Connect Drone: disabled={!connected || droneConnected}
ConnectDisabled == ~connected \/ droneConnected

\* connectDrone, with at most cap of its timeouts pending
ConnectDroneUpTo(cap) ==
  IF ConnectDisabled \/ ws = "null"
  THEN Ignored("connectDrone")
  ELSE /\ connectTimers < cap
       /\ connectTimers' = connectTimers + 1
       /\ UNCHANGED << droneConnected, streaming, manualMode >>
       /\ UNCHANGED << linkVars, keyVars, planVars, rxVars >>
       /\ Emit("connectDrone", << [action |-> "connect"] >>)

\* connectDrone
ConnectDrone == ConnectDroneUpTo(MaxTimers)

\* the callback connectDrone hands to setTimeout
ConnectTimeout ==
  /\ connectTimers > 0
  /\ connectTimers' = connectTimers - 1
  /\ droneConnected' = TRUE
  /\ KeyboardEffect(manualMode, TRUE, ws, timerActive)
  /\ UNCHANGED << streaming, manualMode, held, keysPressed, controlInterval >>
  /\ UNCHANGED << linkVars, planVars, rxVars >>
  /\ Quiet("connectTimeout")

\* Start Stream: disabled={!droneConnected || streaming}
StreamDisabled == ~droneConnected \/ streaming

\* startStream
StartStream ==
  IF StreamDisabled \/ ws = "null"
  THEN Ignored("startStream")
  ELSE /\ streaming' = TRUE
       /\ UNCHANGED << droneConnected, manualMode, connectTimers >>
       /\ UNCHANGED << linkVars, keyVars, planVars, rxVars >>
       /\ Emit("startStream", << [action |-> "start_stream"] >>)

\* Takeoff: disabled={!droneConnected}
TakeoffDisabled == ~droneConnected

\* takeoff
Takeoff ==
  IF TakeoffDisabled \/ ws = "null"
  THEN Ignored("takeoff")
  ELSE /\ UNCHANGED << linkVars, sessVars, keyVars, planVars, rxVars >>
       /\ Emit("takeoff", << [action |-> "takeoff"] >>)

\* Manual Mode: disabled={!droneConnected}
ManualDisabled == ~droneConnected

\* onClick={() => setManualMode(!manualMode)}
ToggleManual ==
  IF ManualDisabled
  THEN Ignored("toggleManual")
  ELSE /\ manualMode' = ~manualMode
       /\ KeyboardEffect(manualMode', droneConnected, ws, timerActive)
       /\ UNCHANGED << droneConnected, streaming, connectTimers >>
       /\ UNCHANGED << held, keysPressed, controlInterval >>
       /\ UNCHANGED << linkVars, planVars, rxVars >>
       /\ Quiet("toggleManual")

\* emergencyStop without its setManualMode(false)
ManualModeAfterStopKept == manualMode

\* manualMode as emergencyStop leaves it once it has sent: setManualMode(false)
ManualModeAfterStop == FALSE

\* emergencyStop (the button is never disabled)
EmergencyStop ==
  IF ws = "null"
  THEN Ignored("emergencyStop")
  ELSE /\ manualMode' = ManualModeAfterStop
       /\ KeyboardEffect(manualMode', droneConnected, ws, timerActive)
       /\ UNCHANGED << droneConnected, streaming, connectTimers >>
       /\ UNCHANGED << held, keysPressed, controlInterval >>
       /\ UNCHANGED << linkVars, planVars, rxVars >>
       /\ Emit("emergencyStop", << [action |-> "emergency_stop"] >>)

\* START MISSION disabled on a missing plan alone
ExecuteDisabledNoDrone == flightPlan = Null

\* START MISSION: disabled={!droneConnected || !flightPlan}
ExecuteDisabled == ~droneConnected \/ flightPlan = Null

\* the message executeMission sends (its mission_id, a timestamp, left out;
\* JSON.stringify drops waypoints when flightPlan has none)
MissionMessage ==
  [action |-> "execute_mission",
   mission_data |->
     LET field_id == IF fieldMap = Null THEN "undefined" ELSE fieldMap.field_id
     IN  IF "waypoints" \in DOMAIN flightPlan
         THEN [field_id |-> field_id, waypoints |-> flightPlan.waypoints,
               altitude |-> altitude]
         ELSE [field_id |-> field_id, altitude |-> altitude]]

\* executeMission
ExecuteMission ==
  IF ExecuteDisabled \/ ws = "null" \/ flightPlan = Null
  THEN Ignored("executeMission")
  ELSE /\ UNCHANGED << linkVars, sessVars, keyVars, planVars, rxVars >>
       /\ Emit("executeMission", << MissionMessage >>)

(***************************************************************************)
(* Field map and flight plan.                                              *)
(***************************************************************************)
\* field map files the control model loads: the parsed JSON
FieldOne == [kind |-> "map", field_id |-> "field_1"]
FieldFilesCtl == {FieldOne}

\* reader.onload of loadFieldMap on a file whose text parses to content, or
\* on one that does not parse (Invalid)
LoadFieldMap(content) ==
  /\ fieldMap' = (IF content = Invalid THEN fieldMap ELSE content)
  /\ UNCHANGED << flightPlan, altitude, overlap, fetches, lastRequest >>
  /\ UNCHANGED << linkVars, sessVars, keyVars, rxVars >>
  /\ Quiet("loadFieldMap")

\* Generate Flight Path: disabled={!fieldMap}
GenerateDisabled == fieldMap = Null

\* The body generateFlightPath posts.  altitude_m and overlap_pct are
\* altitude[0] / 100 and overlap[0] / 100: kept as the numerators over 100.
GenerateRequest ==
  [field_config |-> fieldMap, altitude_m_x100 |-> altitude, overlap_pct_x100 |-> overlap]

\* generateFlightPath up to its await fetch, with at most cap requests in
\* flight
GenerateFlightPathUpTo(cap) ==
  IF GenerateDisabled \/ fieldMap = Null
  THEN Ignored("generateFlightPath")
  ELSE /\ Len(fetches) < cap
       /\ fetches' = Append(fetches, GenerateRequest)
       /\ lastRequest' = GenerateRequest
       /\ UNCHANGED << fieldMap, flightPlan, altitude, overlap >>
       /\ UNCHANGED << linkVars, sessVars, keyVars, rxVars >>
       /\ Quiet("generateFlightPath")

\* generateFlightPath up to its await fetch
GenerateFlightPath == GenerateFlightPathUpTo(MaxFetches)

\* a plan body the planning service answers req with (from: the request it
\* answers, kept for reference and not part of the body)
PlanFor(req) ==
  [kind |-> "plan", waypoints |-> << [x |-> 0, y |-> 0], [x |-> 100, y |-> 0] >>,
   from |-> req]

\* what the fetch of req can come back with in the control model: a body, or
\* Invalid when fetch or response.json() rejects
ResponsesCtl(req) == {PlanFor(req), Invalid}

\* seq without its i-th element
RemoveAt(seq, i) == SubSeq(seq, 1, i - 1) \o SubSeq(seq, i + 1, Len(seq))

\* generateFlightPath from its await on: the i-th fetch in flight settles
\* with resp
FetchDone(i, resp) ==
  /\ i \in 1..Len(fetches)
  /\ fetches' = RemoveAt(fetches, i)
  /\ flightPlan' = (IF resp = Invalid THEN flightPlan ELSE resp)
  /\ UNCHANGED << fieldMap, altitude, overlap, lastRequest >>
  /\ UNCHANGED << linkVars, sessVars, keyVars, rxVars >>
  /\ Quiet("fetchDone")

(***************************************************************************)
(* The control specification: link, session, keyboard and the buttons,     *)
(* with one field map and one plan body.                                   *)
(***************************************************************************)
Next ==
  \/ OnOpen
  \/ ConnectionLost
  \/ OnClose
  \/ \E raw \in InboundCtl : OnMessage(raw)
  \/ \E key \in KeyEvents : KeyDown(key)
  \/ \E key \in KeyEvents : KeyUp(key)
  \/ Tick
  \/ ConnectDrone
  \/ ConnectTimeout
  \/ StartStream
  \/ Takeoff
  \/ ToggleManual
  \/ EmergencyStop
  \/ ExecuteMission
  \/ \E content \in FieldFilesCtl \cup {Invalid} : LoadFieldMap(content)
  \/ GenerateFlightPath
  \/ \E i \in 1..Len(fetches) : \E resp \in ResponsesCtl(fetches[i]) : FetchDone(i, resp)

Spec == Init /\ [][Next]_vars

(***************************************************************************)
(* The sampling task over every set of keys: manual mode is on, the        *)
(* interval is scheduled and any of the keys sendManualCommands tests are  *)
(* down, then the interval fires.                                          *)
(***************************************************************************)
InitKeys ==
  /\ LinkedSession
  /\ manualMode = TRUE
  /\ keysPressed \in SUBSET ManualKeys
  /\ held = keysPressed
  /\ controlInterval = "id"
  /\ timerActive = TRUE
  /\ effWs = "sock"
  /\ PlanIdle
  /\ RxIdle
  /\ OutIdle(IF keysPressed = {} THEN "keyup" ELSE "keydown")
  /\ FarmIdle
  /\ UploadIdle

NextKeys == Tick

SpecKeys == InitKeys /\ [][NextKeys]_vars

(***************************************************************************)
(* The plan panel: two field map files, the two sliders, and a planning    *)
(* service that answers with a plan, a plan without waypoints or an error  *)
(* body.  The drone is connected, so START MISSION depends on the plan, and *)
(* one more request can be in flight than in the control specification.    *)
(***************************************************************************)
FieldTwo == [kind |-> "map", field_id |-> "field_2"]
FieldFilesPlan == {FieldOne, FieldTwo}

\* slider positions the model moves the thumbs to (min 50 max 300 step 10,
\* min 10 max 50 step 5)
AltitudesPlan == {200, 250}
OverlapsPlan == {30, 35}

\* onValueChange of the altitude slider: setAltitude
SetAltitude(v) ==
  /\ v # altitude
  /\ altitude' = v
  /\ UNCHANGED << fieldMap, flightPlan, overlap, fetches, lastRequest >>
  /\ UNCHANGED << linkVars, sessVars, keyVars, rxVars >>
  /\ Quiet("setAltitude")

\* onValueChange of the overlap slider: setOverlap
SetOverlap(v) ==
  /\ v # overlap
  /\ overlap' = v
  /\ UNCHANGED << fieldMap, flightPlan, altitude, fetches, lastRequest >>
  /\ UNCHANGED << linkVars, sessVars, keyVars, rxVars >>
  /\ Quiet("setOverlap")

\* a plan body with an empty waypoint list
EmptyPlanFor(req) == [kind |-> "plan", waypoints |-> << >>, from |-> req]

\* a structured error body
ErrorFor(req) ==
  [kind |-> "error", error_code |-> "PLAN_FAILED",
   error_message |-> "no path", from |-> req]

\* what the fetch of req can come back with
ResponsesPlan(req) == {PlanFor(req), EmptyPlanFor(req), ErrorFor(req), Invalid}

InitPlan ==
  /\ LinkedSession
  /\ manualMode = FALSE
  /\ held = {}
  /\ keysPressed = {}
  /\ controlInterval = "null"
  /\ timerActive = FALSE
  /\ effWs = "null"
  /\ PlanIdle
  /\ RxIdle
  /\ OutIdle("connectTimeout")
  /\ FarmIdle
  /\ UploadIdle

NextPlan ==
  \/ \E content \in FieldFilesPlan \cup {Invalid} : LoadFieldMap(content)
  \/ \E v \in AltitudesPlan : SetAltitude(v)
  \/ \E v \in OverlapsPlan : SetOverlap(v)
  \/ GenerateFlightPathUpTo(MaxFetches + 1)
  \/ \E i \in 1..Len(fetches) : \E resp \in ResponsesPlan(fetches[i]) : FetchDone(i, resp)
  \/ ExecuteMission

SpecPlan == InitPlan /\ [][NextPlan]_vars

(***************************************************************************)
(* The receiving side: the link is open and the server sends video frames  *)
(* with and without telemetry, status messages, and messages the page has  *)
(* no branch for, while the session buttons are used; Connect Drone can be *)
(* clicked once more than in the control specification while a timeout is  *)
(* pending.                                                                *)
(***************************************************************************)
\* telemetry objects of a frame: in range, battery over 100, height below 0
TelemetryOk == [kind |-> "json", battery |-> 80, height |-> 120]
TelemetryOverBattery == [kind |-> "json", battery |-> 150, height |-> 120]
TelemetryBelowGround == [kind |-> "json", battery |-> 80, height |-> -5]

\* a video_frame message; telemetry Null when the frame carries none
Frame(tel, active) ==
  [kind |-> "json", type |-> "video_frame", data |-> "frame", telemetry |-> tel,
   mission_active |-> active, waypoint |-> 1, total_waypoints |-> 2]

FramesRx ==
  {Frame(tel, active) :
     tel \in {Null, TelemetryOk, TelemetryOverBattery, TelemetryBelowGround},
     active \in BOOLEAN}

\* an object of a type the handler has no branch for, and one with no type
UnknownType == [kind |-> "json", type |-> "battery_warning"]
NoType == [kind |-> "json"]

\* the messages the claim on dropped messages is about
DroppedRx == {Invalid, JsonNull, JsonNumber, UnknownType, NoType}

InboundRx == FramesRx \cup {StatusDone} \cup DroppedRx

InitRx ==
  /\ socket = "OPEN"
  /\ ws = "sock"
  /\ connected = TRUE
  /\ droneConnected = FALSE
  /\ streaming = FALSE
  /\ manualMode = FALSE
  /\ connectTimers = 0
  /\ held = {}
  /\ keysPressed = {}
  /\ controlInterval = "null"
  /\ timerActive = FALSE
  /\ effWs = "null"
  /\ PlanIdle
  /\ RxIdle
  /\ OutIdle("open")
  /\ FarmIdle
  /\ UploadIdle

NextRx ==
  \/ \E raw \in InboundRx : OnMessage(raw)
  \/ ConnectDroneUpTo(MaxTimers + 1)
  \/ ConnectTimeout
  \/ StartStream
  \/ ToggleManual
  \/ ConnectionLost
  \/ OnClose

SpecRx == InitRx /\ [][NextRx]_vars

(***************************************************************************)
(* FarmMapping: two pins span the field rectangle, rectangles inside it    *)
(* are obstacles and no-fly zones, and exportJSON writes the field map in  *)
(* meters from the south-west corner.  Positions are grid points in units  *)
(* of 0.0001 degree; meters with two decimals are whole centimeters.       *)
(***************************************************************************)
\* obstacles and no-fly zones on the page at the same time, together
MaxZones == 1

\* R * (pi / 180) * 0.0001 * 100 with R = 6371000: centimeters per grid unit
\* along a meridian, to the centimeter
CmPerUnit == 1112

\* 1000 * Math.cos((lat1 + lat2) / 2) with lat1 + lat2 = latSum grid units:
\* the grid's latitudes lie within 36.73..36.74 degrees
Cos1000(latSum) == 801

\* n / d rounded to the nearest integer, halves away from zero (toFixed)
RoundDiv(n, d) ==
  IF n >= 0 THEN (2 * n + d) \div (2 * d) ELSE -((2 * (-n) + d) \div (2 * d))

\* where the model clicks and drops pins
MapLats == {367350, 367367, 367386}
MapLngs == {-1197851, -1197823}
MapPoints == {LatLng(lat, lng) : lat \in MapLats, lng \in MapLngs}

Min(a, b) == IF a <= b THEN a ELSE b
Max(a, b) == IF a >= b THEN a ELSE b

\* the click handler without its "click inside the main rectangle" test
ContainsAny(a, b, p) == TRUE

\* new LatLngBounds(a, b).getSouthWest() / getNorthEast() / contains(p)
SouthWest(a, b) == LatLng(Min(a.lat, b.lat), Min(a.lng, b.lng))
NorthEast(a, b) == LatLng(Max(a.lat, b.lat), Max(a.lng, b.lng))
Contains(a, b, p) ==
  /\ SouthWest(a, b).lat <= p.lat /\ p.lat <= NorthEast(a, b).lat
  /\ SouthWest(a, b).lng <= p.lng /\ p.lng <= NorthEast(a, b).lng

\* latLngToMeters: [x, y] of latLng from origin, in centimeters
LatLngToMeters(latLng, origin) ==
  << RoundDiv(CmPerUnit * (latLng.lng - origin.lng)
                * Cos1000(origin.lat + latLng.lat), 1000),
     CmPerUnit * (latLng.lat - origin.lat) >>

\* the corners [sw, se, ne, nw, sw] of the rectangle spanned by a and b
Corners(a, b) ==
  LET sw == SouthWest(a, b)
      ne == NorthEast(a, b)
  IN  << sw, LatLng(sw.lat, ne.lng), ne, LatLng(ne.lat, sw.lng), sw >>

\* width * length of the rectangle spanned by a and b, square meters:
\* sw.distanceTo(se) * sw.distanceTo(nw)
RectArea(a, b) ==
  LET sw == SouthWest(a, b)
      ne == NorthEast(a, b)
  IN  (RoundDiv(CmPerUnit * (ne.lng - sw.lng) * Cos1000(2 * sw.lat), 1000) \div 100)
        * ((CmPerUnit * (ne.lat - sw.lat)) \div 100)

\* the record of a FarmMapping callback named ev that was given the map
\* position input (e.latlng of a click) and downloaded file; the
\* callback has no access to the state of MissionControl
FarmEventOf(ev, file, input) ==
  /\ exported' = file
  /\ lastEvent' = ev
  /\ lastSent' = << >>
  /\ sendOnClosed' = FALSE
  /\ cleared' = FALSE
  /\ started' = FALSE
  /\ lastInput' = input
  /\ UNCHANGED issued
  /\ UNCHANGED << linkVars, sessVars, keyVars, planVars, rxVars, uploadVars >>

\* crypto.randomUUID(): an id no zone on the page has
ZoneIds ==
  {obstacles[i].id : i \in 1..Len(obstacles)}
    \cup {noFlyZones[i].id : i \in 1..Len(noFlyZones)}
FreshId == CHOOSE n \in 1..(Cardinality(ZoneIds) + 1) : n \notin ZoneIds

\* the record of a FarmMapping callback that was given no position
FarmEvent(ev, file) == FarmEventOf(ev, file, Null)

\* the obstacle branch without its area test
ClickObstacleAnyArea(p) ==
  IF ~Contains(pinA, pinB, p)
  THEN UNCHANGED << obstacles, obstacleStart >>
  ELSE IF obstacleStart = Null
  THEN /\ obstacleStart' = p
       /\ UNCHANGED obstacles
  ELSE /\ obstacleStart' = Null
       /\ Len(obstacles) + Len(noFlyZones) < MaxZones
       /\ obstacles' =
            Append(obstacles,
                   [id |-> FreshId, boundary |-> Corners(obstacleStart, p),
                    area |-> RectArea(obstacleStart, p)])

\* the click handler of MapClickHandler on e.latlng = p, obstacle branch
ClickObstacle(p) ==
  IF ~Contains(pinA, pinB, p)
  THEN UNCHANGED << obstacles, obstacleStart >>
  ELSE IF obstacleStart = Null
  THEN /\ obstacleStart' = p
       /\ UNCHANGED obstacles
  ELSE /\ obstacleStart' = Null
       /\ IF RectArea(obstacleStart, p) > 1
          THEN /\ Len(obstacles) + Len(noFlyZones) < MaxZones
               /\ obstacles' =
                    Append(obstacles,
                           [id |-> FreshId, boundary |-> Corners(obstacleStart, p),
                            area |-> RectArea(obstacleStart, p)])
          ELSE UNCHANGED obstacles

\* the click handler of MapClickHandler on e.latlng = p, nofly branch
ClickNoFly(p) ==
  IF ~Contains(pinA, pinB, p)
  THEN UNCHANGED << noFlyZones, noFlyStart >>
  ELSE IF noFlyStart = Null
  THEN /\ noFlyStart' = p
       /\ UNCHANGED noFlyZones
  ELSE /\ noFlyStart' = Null
       /\ IF RectArea(noFlyStart, p) > 1
          THEN /\ Len(obstacles) + Len(noFlyZones) < MaxZones
               /\ noFlyZones' =
                    Append(noFlyZones,
                           [id |-> FreshId, boundary |-> Corners(noFlyStart, p),
                            area |-> RectArea(noFlyStart, p),
                            reason |-> "Safety restriction"])
          ELSE UNCHANGED noFlyZones

\* the click handler of MapClickHandler on e.latlng = p
MapClick(p) ==
  /\ CASE mode = "base" ->
            /\ IF nextPin = "a"
               THEN pinA' = p /\ nextPin' = "b" /\ UNCHANGED pinB
               ELSE pinB' = p /\ nextPin' = "a" /\ UNCHANGED pinA
            /\ UNCHANGED << obstacles, noFlyZones, obstacleStart, noFlyStart >>
       [] mode = "obstacle" ->
            /\ ClickObstacle(p)
            /\ UNCHANGED << pinA, pinB, nextPin, noFlyZones, noFlyStart >>
       [] mode = "nofly" ->
            /\ ClickNoFly(p)
            /\ UNCHANGED << pinA, pinB, nextPin, obstacles, obstacleStart >>
  /\ UNCHANGED mode
  /\ FarmEventOf("click", Null, p)

\* dragend of the marker of pin A (draggable={mode === "base"})
DragEndA(p) ==
  /\ mode = "base"
  /\ pinA' = p
  /\ UNCHANGED << pinB, mode, nextPin, obstacles, noFlyZones, obstacleStart, noFlyStart >>
  /\ FarmEvent("dragendA", Null)

\* dragend of the marker of pin B
DragEndB(p) ==
  /\ mode = "base"
  /\ pinB' = p
  /\ UNCHANGED << pinA, mode, nextPin, obstacles, noFlyZones, obstacleStart, noFlyStart >>
  /\ FarmEvent("dragendB", Null)

\* Lock Boundary (shown in base mode)
LockBoundary ==
  /\ mode = "base"
  /\ mode' = "obstacle"
  /\ UNCHANGED << pinA, pinB, nextPin, obstacles, noFlyZones, obstacleStart, noFlyStart >>
  /\ FarmEvent("lockBoundary", Null)

\* Reset (shown in base mode)
ResetPins ==
  /\ mode = "base"
  /\ pinA' = DefaultPinA
  /\ pinB' = DefaultPinB
  /\ nextPin' = "a"
  /\ UNCHANGED << mode, obstacles, noFlyZones, obstacleStart, noFlyStart >>
  /\ FarmEvent("resetPins", Null)

\* the Obstacles and No-Fly buttons (shown once the boundary is locked)
SetMode(m) ==
  /\ mode # "base"
  /\ mode' = m
  /\ UNCHANGED << pinA, pinB, nextPin, obstacles, noFlyZones, obstacleStart, noFlyStart >>
  /\ FarmEvent("setMode", Null)

\* Restart Mapping that only goes back to base mode
RestartMappingModeOnly ==
  /\ mode # "base"
  /\ mode' = "base"
  /\ UNCHANGED << pinA, pinB, nextPin, obstacles, noFlyZones, obstacleStart, noFlyStart >>
  /\ FarmEvent("restartMapping", Null)

\* Restart Mapping (shown once the boundary is locked)
RestartMapping ==
  /\ mode # "base"
  /\ mode' = "base"
  /\ obstacles' = << >>
  /\ noFlyZones' = << >>
  /\ obstacleStart' = Null
  /\ noFlyStart' = Null
  /\ UNCHANGED << pinA, pinB, nextPin >>
  /\ FarmEvent("restartMapping", Null)

\* the remove button of the i-th obstacle
RemoveObstacle(i) ==
  /\ i \in 1..Len(obstacles)
  /\ obstacles' = SelectSeq(obstacles, LAMBDA o : o.id # obstacles[i].id)
  /\ UNCHANGED << pinA, pinB, mode, nextPin, noFlyZones, obstacleStart, noFlyStart >>
  /\ FarmEvent("removeObstacle", Null)

\* the remove button of the i-th no-fly zone
RemoveNoFlyZone(i) ==
  /\ i \in 1..Len(noFlyZones)
  /\ noFlyZones' = SelectSeq(noFlyZones, LAMBDA z : z.id # noFlyZones[i].id)
  /\ UNCHANGED << pinA, pinB, mode, nextPin, obstacles, obstacleStart, noFlyStart >>
  /\ FarmEvent("removeNoFlyZone", Null)

\* exportJSON taking pin A for the south-west corner
OriginPinA(a, b) == a

\* the origin exportJSON measures from: sw of the bounds of the pins a, b
Origin(a, b) == SouthWest(a, b)

\* a zone boundary in centimeters from origin
BoundaryToMeters(boundary, origin) ==
  [j \in 1..Len(boundary) |-> LatLngToMeters(boundary[j], origin)]

\* the json exportJSON downloads (field_id and name left out; reference_point
\* in grid units, which toFixed(6) keeps)
ExportedMap ==
  LET corners == Corners(pinA, pinB)
      origin == Origin(pinA, pinB)
  IN  [boundary |->
         << << 0, 0 >>, LatLngToMeters(corners[2], origin),
            LatLngToMeters(corners[3], origin), LatLngToMeters(corners[4], origin),
            << 0, 0 >> >>,
       obstacles |->
         [i \in 1..Len(obstacles) |->
            [type |-> "obstacle",
             boundary |-> BoundaryToMeters(obstacles[i].boundary, origin)]],
       no_fly_zones |->
         [i \in 1..Len(noFlyZones) |->
            [type |-> "no_fly_zone",
             boundary |-> BoundaryToMeters(noFlyZones[i].boundary, origin),
             reason |-> noFlyZones[i].reason]],
       reference_point |-> [lat |-> origin.lat, lon |-> origin.lng]]

\* Export Field Map (shown once the boundary is locked)
ExportJSON ==
  /\ mode # "base"
  /\ UNCHANGED << pinA, pinB, mode, nextPin, obstacles, noFlyZones, obstacleStart, noFlyStart >>
  /\ FarmEvent("exportJSON", ExportedMap)

NextMap ==
  \/ \E p \in MapPoints : MapClick(p)
  \/ \E p \in MapPoints : DragEndA(p)
  \/ \E p \in MapPoints : DragEndB(p)
  \/ LockBoundary
  \/ ResetPins
  \/ \E m \in {"obstacle", "nofly"} : SetMode(m)
  \/ RestartMapping
  \/ \E i \in 1..Len(obstacles) : RemoveObstacle(i)
  \/ \E i \in 1..Len(noFlyZones) : RemoveNoFlyZone(i)
  \/ ExportJSON

SpecMap == Init /\ [][NextMap]_vars

(***************************************************************************)
(* MyFarm: a video is chosen, posted by analyzeVideo, and the page shows   *)
(* the upload and then the analysis until the call settles.  Sizes are in  *)
(* bytes.                                                                  *)
(***************************************************************************)
\* the file types handleUploadSelect accepts
validTypes ==
  {"video/mp4", "video/avi", "video/mov", "video/quicktime", "video/x-msvideo",
   "video/x-matroska"}

\* the largest file handleUploadSelect accepts
maxSize == 500 * 1024 * 1024

\* a File
VideoFile(name, type, size) == [name |-> name, type |-> type, size |-> size]

\* what the file input can hand to handleUploadSelect: no file (Null), two
\* videos, a video one byte over the limit, and an image
FileLists ==
  {Null,
   VideoFile("field.mp4", "video/mp4", 4096),
   VideoFile("orchard.mov", "video/quicktime", maxSize),
   VideoFile("long.mkv", "video/x-matroska", maxSize + 1),
   VideoFile("photo.png", "image/png", 4096)}

\* e.total of the progress events of a request whose length is computable:
\* the length of the multipart body
Totals == {2, 200}

\* the bodies analyzeVideo can resolve with
AnalysisResponses ==
  {[status |-> "success", results |-> [total_detections |-> n]] : n \in {0, 7}}

\* the record of a MyFarm callback named ev; the callback has no access to
\* the state of MissionControl or FarmMapping
UploadEvent(ev) ==
  /\ lastEvent' = ev
  /\ lastSent' = << >>
  /\ sendOnClosed' = FALSE
  /\ cleared' = FALSE
  /\ started' = FALSE
  /\ lastInput' = Null
  /\ UNCHANGED issued
  /\ UNCHANGED << linkVars, sessVars, keyVars, planVars, rxVars, farmVars >>

\* the upload controls are enabled
UploadEnabled == ~(isUploading \/ isAnalyzing)

\* handleUploadSelect up to its await: files is the first file of the list,
\* or Null for none; the request that starts has a computable length of
\* total, or none (total 0)
HandleUploadSelect(files, computable, total) ==
  /\ UploadEnabled
  /\ IF files = Null \/ files.type \notin validTypes \/ files.size > maxSize
     THEN UNCHANGED uploadVars
     ELSE /\ uploadName' = files.name
          /\ isUploading' = TRUE
          /\ isAnalyzing' = FALSE
          /\ analysisResults' = Null
          /\ uploadProgress' = Null
          /\ xhr' = [lengthComputable |-> computable,
                     total |-> (IF computable THEN total ELSE 0),
                     loaded |-> 0]
  /\ UploadEvent("handleUploadSelect")

\* Math.round((loaded / total) * 100)
Percentage(loaded, total) == (200 * loaded + total) \div (2 * total)

\* the progress listener of xhr.upload with the callback handleUploadSelect
\* gave to analyzeVideo: loaded bytes of the body are sent
UploadProgressEvent(loaded) ==
  /\ xhr # Null
  /\ loaded > xhr.loaded
  /\ xhr.lengthComputable => loaded <= xhr.total
  /\ xhr' = [xhr EXCEPT !.loaded = loaded]
  /\ IF xhr.lengthComputable
     THEN LET progress == [loaded |-> loaded, total |-> xhr.total,
                           percentage |-> Percentage(loaded, xhr.total)]
          IN  /\ uploadProgress' = progress
              /\ IF progress.percentage = 100
                 THEN /\ isUploading' = FALSE
                      /\ isAnalyzing' = TRUE
                 ELSE UNCHANGED << isUploading, isAnalyzing >>
     ELSE UNCHANGED << uploadProgress, isUploading, isAnalyzing >>
  /\ UNCHANGED << uploadName, analysisResults >>
  /\ UploadEvent("progress")

\* handleUploadSelect after its await, analyzeVideo having resolved with
\* result
AnalyzeResolved(result) ==
  /\ xhr # Null
  /\ xhr' = Null
  /\ isAnalyzing' = FALSE
  /\ analysisResults' = result
  /\ UNCHANGED << uploadName, isUploading, uploadProgress >>
  /\ UploadEvent("resolved")

\* handleUploadSelect in its catch, analyzeVideo having rejected
AnalyzeRejected ==
  /\ xhr # Null
  /\ xhr' = Null
  /\ isUploading' = FALSE
  /\ isAnalyzing' = FALSE
  /\ UNCHANGED << uploadName, uploadProgress, analysisResults >>
  /\ UploadEvent("rejected")

NextUpload ==
  \/ \E files \in FileLists, computable \in BOOLEAN, total \in Totals :
       HandleUploadSelect(files, computable, total)
  \/ \E loaded \in 1..200 : UploadProgressEvent(loaded)
  \/ \E result \in AnalysisResponses : AnalyzeResolved(result)
  \/ AnalyzeRejected

SpecUpload == Init /\ [][NextUpload]_vars

(***************************************************************************)
(* Properties.                                                             *)
(***************************************************************************)
\* the actions of the messages the last callback put on the link
SentNow == ActionsOf(lastSent)

\* the emergency stop handler ran past its ws check in the last step
StopIssued == lastEvent = "emergencyStop" /\ (lastSent # << >> \/ sendOnClosed)

\* movement and rotation commands
MoveActions == ManualActions \ {"land"}

\* C1: manual control and autonomous execution exclude each other: a step
\* taken in manual mode puts no execute_mission on the link, and manual mode
\* is not switched on in the step after execute_mission went out.
C1_ModesExclusive ==
  [][ /\ manualMode => "execute_mission" \notin ActionsOf(lastSent')
      /\ "execute_mission" \in SentNow => ~(~manualMode /\ manualMode') ]_vars

\* C2: once emergency_stop has gone out, no takeoff, movement, rotation,
\* start_stream or execute_mission goes out (the page has no reset of the
\* session, so "until reset" is "ever after").
C2_StopRevokesCommands ==
  "emergency_stop" \in issued =>
     SentNow \cap (MoveActions \cup {"takeoff", "start_stream", "execute_mission"}) = {}

\* C3: a click on EMERGENCY STOP always puts emergency_stop on the link and
\* leaves manual mode off.
C3_StopNeverIgnored ==
  lastEvent = "emergencyStop" => ("emergency_stop" \in SentNow /\ ~manualMode)

\* C4: an emergency stop that is issued cancels the sampling task; manual
\* commands come only from a tick of a scheduled task in manual mode, and a
\* task is scheduled again only by a key press in manual mode.  So nothing
\* the cancelled task had pending is sent after the stop.
C4_EmergencyPrecedence ==
  [][ /\ (lastEvent' = "emergencyStop" /\ (lastSent' # << >> \/ sendOnClosed'))
           => (~timerActive' /\ ~manualMode')
      /\ ActionsOf(lastSent') \cap ManualActions # {}
           => (lastEvent' = "tick" /\ timerActive /\ manualMode)
      /\ (~timerActive /\ timerActive')
           => (lastEvent' = "keydown" /\ manualMode') ]_vars

\* C4 witness: the stop went out while the task was scheduled with w held,
\* and cancelled it.
C4_Witness ==
  /\ lastEvent = "emergencyStop"
  /\ "emergency_stop" \in SentNow
  /\ cleared
  /\ "w" \in keysPressed
  /\ ~timerActive

\* C5: after an emergency stop the session is back to Disconnected / idle.
C5_StopResetsSession ==
  StopIssued => (~droneConnected /\ ~streaming /\ ~manualMode)

\* C6: the drone-connected flag and the streaming flag turn true only in a
\* step that handles a message from the drone server.
C6_AdvanceOnAckOnly ==
  [][ ((~droneConnected /\ droneConnected') \/ (~streaming /\ streaming'))
        => lastEvent' = "message" ]_vars

\* C7: takeoff goes out only while the streaming flag is true.
C7_TakeoffOnlyStreaming ==
  "takeoff" \in SentNow => streaming

\* C8: manual mode is on, and execute_mission or a manual command goes out,
\* only after takeoff has gone out.
C8_ModesOnlyAirborne ==
  (manualMode \/ SentNow \cap (ManualActions \cup {"execute_mission"}) # {})
     => "takeoff" \in issued

\* C9: execute_mission goes out only while the drone-connected flag is true,
\* and a START MISSION attempt without it sends nothing and leaves the link,
\* session, plan and mission-status state as they were.
C9_NoMissionWhileDisconnected ==
  [][ /\ "execute_mission" \in ActionsOf(lastSent') => droneConnected'
      /\ (lastEvent' = "executeMission" /\ ~droneConnected)
           => /\ lastSent' = << >>
              /\ ~sendOnClosed'
              /\ UNCHANGED << linkVars, sessVars, planVars, rxVars >> ]_vars

\* C9 witness: START MISSION was tried with the server link open and a plan
\* loaded, but no drone connected, and nothing was sent.
C9_Witness ==
  /\ lastEvent = "executeMission"
  /\ ~droneConnected
  /\ socket = "OPEN" /\ ws = "sock"
  /\ flightPlan # Null
  /\ lastSent = << >>

\* C10: one tick of the sampling task puts at most one command on the link.
C10_OneCommandPerTick ==
  lastEvent = "tick" => Len(lastSent) <= 1

\* C11: a connect goes out only when no connect is pending and the session
\* is not connected: at most one connect request is outstanding.
C11_OneConnectOutstanding ==
  [][ "connect" \in ActionsOf(lastSent')
        => (connectTimers = 0 /\ ~droneConnected) ]_vars

\* C16: the drone-connected flag implies an open server connection, and
\* after the WebSocket closed neither it nor the streaming flag nor manual
\* mode is true.
C16_SessionEndsOnClose ==
  /\ droneConnected => connected
  /\ socket = "CLOSED" => (~droneConnected /\ ~streaming /\ ~manualMode)

\* the actions of the control channel
ControlActions ==
  {"connect", "start_stream", "takeoff", "land", "move_forward", "move_back",
   "move_left", "move_right", "move_up", "move_down", "rotate_cw", "rotate_ccw",
   "execute_mission", "emergency_stop"}

C18_ParametersInRange ==
  \A i \in 1..Len(lastSent) :
    LET m == lastSent[i]
    IN  /\ m.action \in {"move_forward", "move_back", "move_left", "move_right",
                         "move_up", "move_down"}
             => ("distance" \in DOMAIN m /\ m.distance \in 1..500)
        /\ m.action \in {"rotate_cw", "rotate_ccw"}
             => ("degrees" \in DOMAIN m /\ m.degrees \in 1..360)
        /\ "distance" \in DOMAIN m => m.distance \in 1..500
        /\ "degrees" \in DOMAIN m => m.degrees \in 1..360

\* C18 witness: a tick with all eight movement and rotation keys and the
\* land key held sent its nine commands.
C18_Witness ==
  /\ lastEvent = "tick"
  /\ keysPressed = ManualKeys
  /\ Len(lastSent) = 9

\* the mission_data of the execute_mission message the last callback sent
SentMission == lastSent[1].mission_data

\* C12: every execute_mission carries the field_id and the altitude of the
\* request its waypoints were generated from.
C12_PlanMatchesMission ==
  "execute_mission" \in SentNow
    => /\ SentMission.field_id = flightPlan.from.field_config.field_id
       /\ SentMission.altitude = flightPlan.from.altitude_m_x100

\* C13: an error body or a plan without waypoints is never the active
\* flight plan, and every execute_mission carries a non-empty waypoint list.
C13_NoFailedPlanAccepted ==
  /\ flightPlan # Null
       => /\ "error_code" \notin DOMAIN flightPlan
          /\ "waypoints" \in DOMAIN flightPlan
          /\ flightPlan.waypoints # << >>
  /\ "execute_mission" \in SentNow
       => /\ "waypoints" \in DOMAIN SentMission
          /\ SentMission.waypoints # << >>

\* C14: the stored telemetry snapshot has battery within 0..100 and height
\* not below 0: a frame with telemetry out of these bounds is not stored.
C14_TelemetryInBounds ==
  telemetry # Null => (telemetry.battery \in 0..100 /\ telemetry.height >= 0)

\* C15: a message that does not parse, parses to something that is not an
\* object, or has a type the page does not know changes neither the video
\* frame, the telemetry, the mission status, the connection flags nor manual
\* mode, and leaves the channel as it was.
C15_MalformedDropped ==
  [][ (lastEvent' = "message" /\ lastInput' \in DroppedRx)
        => UNCHANGED << rxVars, linkVars, sessVars, keyVars, planVars >> ]_vars

\* C15 witness: with a frame, telemetry and a mission status stored, the
\* drone connected and manual mode on, a message of an unknown type was
\* handled over the open link.
C15_Witness ==
  /\ lastEvent = "message"
  /\ lastInput = UnknownType
  /\ videoFrame = "frame"
  /\ telemetry = TelemetryOk
  /\ missionStatus = StatusDone
  /\ droneConnected /\ manualMode
  /\ socket = "OPEN"

\* C20: every exported field map has a closed five-point boundary that
\* starts and ends at [0, 0], the south-west corner of the two pins, and all
\* of whose coordinates are non-negative, wherever the pins are.
C20_BoundaryFromSouthWest ==
  exported # Null
    => /\ Len(exported.boundary) = 5
       /\ exported.boundary[1] = << 0, 0 >>
       /\ exported.boundary[5] = << 0, 0 >>
       /\ \A i \in 1..5 : exported.boundary[i][1] >= 0 /\ exported.boundary[i][2] >= 0
       /\ exported.reference_point.lat = Min(pinA.lat, pinB.lat)
       /\ exported.reference_point.lon = Min(pinA.lng, pinB.lng)

\* C20 witness: a field map was exported with pin A north-east of pin B.
C20_Witness ==
  /\ exported # Null
  /\ pinA.lat > pinB.lat /\ pinA.lng > pinB.lng
  /\ exported.boundary[3][1] > 0 /\ exported.boundary[3][2] > 0

\* C21: every exported field map has a boundary of at least four points
\* that encloses positive area: no export happens with the pins coinciding
\* or sharing a latitude or a longitude.
C21_ExportHasPositiveArea ==
  exported # Null
    => /\ Len(exported.boundary) >= 4
       /\ pinA.lat # pinB.lat /\ pinA.lng # pinB.lng
       /\ exported.boundary[3][1] > 0 /\ exported.boundary[3][2] > 0

\* every corner of every zone in zones lies within the rectangle of the pins
ZonesWithin(zones) ==
  \A i \in 1..Len(zones) :
    \A j \in 1..Len(zones[i].boundary) :
      LET c == zones[i].boundary[j]
      IN  /\ Min(pinA.lat, pinB.lat) <= c.lat /\ c.lat <= Max(pinA.lat, pinB.lat)
          /\ Min(pinA.lng, pinB.lng) <= c.lng /\ c.lng <= Max(pinA.lng, pinB.lng)

\* every point of every exported zone in zones lies between [0, 0] and the
\* north-east corner of the exported boundary
ExportedWithin(zones) ==
  \A i \in 1..Len(zones) :
    \A j \in 1..Len(zones[i].boundary) :
      /\ 0 <= zones[i].boundary[j][1]
      /\ zones[i].boundary[j][1] <= exported.boundary[3][1]
      /\ 0 <= zones[i].boundary[j][2]
      /\ zones[i].boundary[j][2] <= exported.boundary[3][2]

NothingCaptured ==
  /\ obstacles = << >>
  /\ noFlyZones = << >>
  /\ obstacleStart = Null
  /\ noFlyStart = Null

\* C28: a pin changes only in base mode, and in base mode there is no
\* obstacle, no no-fly zone and no pending first corner, so the boundary is
\* frozen while any of these exists.
C28_BoundaryFrozenWhileCapturing ==
  [][ /\ (pinA' # pinA \/ pinB' # pinB) => (mode = "base" /\ NothingCaptured)
      /\ mode = "base" => NothingCaptured
      /\ mode' = "base" => NothingCaptured' ]_vars

\* C28 witness: Restart Mapping went back to base mode with pins that had
\* been moved before the boundary was locked.
C28_Witness ==
  /\ lastEvent = "restartMapping"
  /\ mode = "base"
  /\ pinA # DefaultPinA /\ pinB # DefaultPinB
  /\ NothingCaptured

\* the zone a second corner p adds to the pending corner start: a closed
\* five-point rectangle with start and p at opposite corners
ClosedRectangle(zone, start, p) ==
  /\ Len(zone.boundary) = 5
  /\ zone.boundary[1] = zone.boundary[5]
  /\ zone.boundary[1].lat = zone.boundary[2].lat
  /\ zone.boundary[2].lng = zone.boundary[3].lng
  /\ zone.boundary[3].lat = zone.boundary[4].lat
  /\ zone.boundary[4].lng = zone.boundary[1].lng
  /\ {start.lat, p.lat} = {zone.boundary[1].lat, zone.boundary[3].lat}
  /\ {start.lng, p.lng} = {zone.boundary[1].lng, zone.boundary[3].lng}

\* the two-click protocol on one list of zones with its pending corner, for
\* a click at p: before and after values of the list and the corner
TwoClick(p, zones, zonesAfter, start, startAfter) ==
  IF ~(/\ Min(pinA.lat, pinB.lat) <= p.lat /\ p.lat <= Max(pinA.lat, pinB.lat)
       /\ Min(pinA.lng, pinB.lng) <= p.lng /\ p.lng <= Max(pinA.lng, pinB.lng))
  THEN zonesAfter = zones /\ startAfter = start
  ELSE IF start = Null
  THEN zonesAfter = zones /\ startAfter = p
  ELSE /\ startAfter = Null
       /\ IF RectArea(start, p) > 1
          THEN /\ Len(zonesAfter) = Len(zones) + 1
               /\ SubSeq(zonesAfter, 1, Len(zones)) = zones
               /\ ClosedRectangle(zonesAfter[Len(zonesAfter)], start, p)
          ELSE zonesAfter = zones

\* C29: in obstacle or no-fly mode a click outside the boundary changes no
\* mapping state, an in-bounds click without a pending corner only records
\* the corner, and an in-bounds click with a pending corner clears it and
\* adds exactly one closed rectangle iff its area exceeds 1 square meter.
C29_TwoClickCapture ==
  [][ lastEvent' = "click"
        => /\ mode = "obstacle"
                => /\ TwoClick(lastInput', obstacles, obstacles', obstacleStart, obstacleStart')
                   /\ UNCHANGED << noFlyZones, noFlyStart, pinA, pinB, mode >>
           /\ mode = "nofly"
                => /\ TwoClick(lastInput', noFlyZones, noFlyZones', noFlyStart, noFlyStart')
                   /\ UNCHANGED << obstacles, obstacleStart, pinA, pinB, mode >> ]_vars

\* C29 witness: the second click of a capture added an obstacle and cleared
\* the pending corner.
C29_Witness ==
  /\ lastEvent = "click"
  /\ mode = "obstacle"
  /\ Len(obstacles) = 1
  /\ obstacleStart = Null

\* C23: a manual command goes out only from a tick of the sampling task,
\* never from a keydown or keyup, and setInterval is called only by a
\* keydown that finds no sampling task scheduled, so at most one is active.
C23_CommandsFromOneTask ==
  [][ /\ ActionsOf(lastSent') \cap ManualActions # {} => lastEvent' = "tick"
      /\ lastEvent' \in {"keydown", "keyup"} => lastSent' = << >>
      /\ started' => (~timerActive /\ timerActive' /\ lastEvent' = "keydown")
      /\ (~timerActive /\ timerActive') => started' ]_vars

\* C23 witness: with a sampling task scheduled, a further keydown in manual
\* mode called no setInterval.
C23_Witness ==
  /\ lastEvent = "keydown"
  /\ Listening
  /\ timerActive
  /\ ~started
  /\ Cardinality(keysPressed) = 2

\* C24: the keyup that releases the last held key in manual mode leaves no
\* sampling task scheduled, and a task is scheduled again only by a keydown.
C24_ReleaseCancelsSampling ==
  [][ /\ (lastEvent' = "keyup" /\ Listening /\ held' = {}) => ~timerActive'
      /\ (~timerActive /\ timerActive') => lastEvent' = "keydown" ]_vars

\* C24 witness: a key was pressed and released with no tick in between: the
\* keyup cancelled the sampling task.
C24_Witness ==
  /\ lastEvent = "keyup"
  /\ Listening
  /\ held = {}
  /\ cleared
  /\ ~timerActive

\* C25: whenever manual mode is on, the drone is connected and a key has
\* just been pressed, the sampling task is scheduled.
C25_SamplingFollowsMode ==
  (lastEvent = "keydown" /\ Listening /\ held # {}) => timerActive

\* C27: no callback calls send on the WebSocket once it has closed.
C27_NoSendAfterClose ==
  socket = "CLOSED" => ~sendOnClosed

\* C26: once the response to the request posted last is the stored flight
\* plan, the response to an older request does not replace it.
C26_LatestRequestWins ==
  [][ (/\ flightPlan # Null
       /\ flightPlan.from = lastRequest
       /\ lastRequest' = lastRequest
       /\ flightPlan' # flightPlan)
        => flightPlan'.from = lastRequest ]_vars

\* C30: when no analyzeVideo call is pending, the page is idle: isUploading
\* and isAnalyzing are both false and the upload controls are enabled.
C30_IdleWhenSettled == xhr = Null => UploadEnabled

====
